---- MODULE Spec2Model ----
(***************************************************************************)
(* User Management API (backend/app): the create / read / list / update / *)
(* delete handlers of main.py over the users table of models.py, each      *)
(* request running in its own SQLAlchemy session (database.get_db) against *)
(* one shared PostgreSQL table with unique indexes on email and username.  *)
(*                                                                         *)
(* A request is handled in steps, one per statement the session sends to   *)
(* the store (a SELECT of a pre-check, the flush + COMMIT, the refresh     *)
(* SELECT); steps of different requests interleave freely.  Every request  *)
(* has a worker and a session of its own (get_db), so a run is a set of    *)
(* request slots, taken in order.                                          *)
(***************************************************************************)
EXTENDS Integers, Sequences, FiniteSets, TLC

VARIABLES
    users,      \* the users table: live id -> row
    nextId,     \* the autoincrement sequence of users.id
    pc,         \* per request: the statement it is about to run
    req,        \* per request: the operation and its inputs
    sess,       \* per request: the User object its session holds (or None)
    resp        \* per request: its response, once finished

vars == <<users, nextId, pc, req, sess, resp>>

-----------------------------------------------------------------------------
(* Bounds of the model *)

MaxReqs == 2       \* requests received in one run, all of which may overlap
RaceReqs == 3      \* writers racing for one value (the race specifications)
InitUsers == 2     \* rows the table may hold at start

-----------------------------------------------------------------------------
(* Values.  A column value or payload value is None (NULL / Python None)   *)
(* or Some(v).                                                             *)

None == <<>>
Some(v) == <<v>>

\* the request slots of the run
Procs == DOMAIN pc

Fields == {"email", "username", "full_name", "is_active"}

EmailSeq == <<"a@x.com", "b@x.com", "c@x.com", "d@x.com", "e@x.com", "f@x.com",
              "g@x.com", "h@x.com", "i@x.com", "j@x.com">>
NameSeq == <<"abc", "bcd", "cde", "def", "efg", "fgh", "ghi", "hij", "ijk", "jkl">>

\* values requests draw from: those of the initial rows and one more
Emails == {EmailSeq[i] : i \in 1..(InitUsers + 1)}
Usernames == {NameSeq[i] : i \in 1..(InitUsers + 1)}
FullNames == {"X"}

\* schemas.UserBase / UserUpdate: Field(min_length, max_length)
UsernameMinLength == 3
UsernameMaxLength == 50
FullNameMaxLength == 100

-----------------------------------------------------------------------------
(* models.User: one row of the users table *)

Row(id, email, username, full_name, is_active, created_at, updated_at) ==
    [id |-> id, email |-> email, username |-> username, full_name |-> full_name,
     is_active |-> is_active, created_at |-> created_at, updated_at |-> updated_at]

\* a row as a create of EmailSeq[i] / NameSeq[i] at time 0 leaves it
SeedUser(i) == Row(i, Some(EmailSeq[i]), Some(NameSeq[i]), None, Some(TRUE), 0, None)

Table(k) == [i \in 1..k |-> SeedUser(i)]

\* func.now(): the store's clock, which advances as requests arrive
Now == Cardinality({p \in Procs : pc[p] # "new"})

-----------------------------------------------------------------------------
(* Request bodies.  A body lists the fields it supplies (model_dump with   *)
(* exclude_unset keeps exactly these); a field not supplied reads None.    *)

Body(sent, email, username, full_name, is_active) ==
    [sent |-> sent, email |-> email, username |-> username,
     full_name |-> full_name, is_active |-> is_active]

\* max_length taken as an exclusive bound
UserCreateValidExclusiveMax(b) ==
    /\ "email" \in b.sent /\ b.email # None
    /\ "username" \in b.sent /\ b.username # None
    /\ Len(b.username[1]) >= UsernameMinLength
    /\ Len(b.username[1]) < UsernameMaxLength
    /\ b.full_name # None => Len(b.full_name[1]) < FullNameMaxLength
    /\ "is_active" \in b.sent => b.is_active # None

\* schemas.UserBase / UserCreate
UserCreateValid(b) ==
    /\ "email" \in b.sent /\ b.email # None
    /\ "username" \in b.sent /\ b.username # None
    /\ Len(b.username[1]) >= UsernameMinLength
    /\ Len(b.username[1]) <= UsernameMaxLength
    /\ b.full_name # None => Len(b.full_name[1]) <= FullNameMaxLength
    /\ "is_active" \in b.sent => b.is_active # None

\* the default of is_active set to False
UserCreateDefaultFalse(b) ==
    [b EXCEPT !.is_active = IF "is_active" \in b.sent THEN @ ELSE Some(FALSE)]

\* is_active: bool = Field(True): the default of a field not supplied
UserCreate(b) ==
    [b EXCEPT !.is_active = IF "is_active" \in b.sent THEN @ ELSE Some(TRUE)]

\* schemas.UserUpdate: every field Optional
UserUpdateValid(b) ==
    /\ b.username # None =>
          /\ Len(b.username[1]) >= UsernameMinLength
          /\ Len(b.username[1]) <= UsernameMaxLength
    /\ b.full_name # None => Len(b.full_name[1]) <= FullNameMaxLength

\* Python truth of an Optional[str]
Truthy(v) == v # None /\ v # Some("")

-----------------------------------------------------------------------------
(* crud.py queries *)

First(S) == IF S = {} THEN None ELSE Some(CHOOSE r \in S : \A q \in S : r.id <= q.id)

get_user(tbl, user_id) ==
    IF user_id \in DOMAIN tbl THEN Some(tbl[user_id]) ELSE None

get_user_by_email(tbl, email) ==
    First({tbl[i] : i \in {j \in DOMAIN tbl : tbl[j].email = email}})

get_user_by_username(tbl, username) ==
    First({tbl[i] : i \in {j \in DOMAIN tbl : tbl[j].username = username}})

-----------------------------------------------------------------------------
(* models.User constraints, enforced by the store when a write is flushed *)

NotNullOk(row) ==
    row.email # None /\ row.username # None /\ row.is_active # None

\* the unique index on username missing
UniqueOkEmailOnly(tbl, row) ==
    \A i \in DOMAIN tbl \ {row.id} : tbl[i].email # row.email

\* the unique index on email missing
UniqueOkUsernameOnly(tbl, row) ==
    \A i \in DOMAIN tbl \ {row.id} : tbl[i].username # row.username

UniqueOk(tbl, row) ==
    \A i \in DOMAIN tbl \ {row.id} :
        tbl[i].email # row.email /\ tbl[i].username # row.username

\* no unique index at all
IntegrityOkNotNullOnly(tbl, row) == NotNullOk(row)

\* the unique index on username dropped
IntegrityOkUniqueEmailOnly(tbl, row) == NotNullOk(row) /\ UniqueOkEmailOnly(tbl, row)

IntegrityOk(tbl, row) == NotNullOk(row) /\ UniqueOk(tbl, row)

-----------------------------------------------------------------------------
(* Requests and responses *)

NoBody == Body({}, None, None, None, None)

\* skip and limit are the query parameters of GET /users
Request(op, user_id, user) ==
    [op |-> op, user_id |-> user_id, user |-> user, skip |-> 0, limit |-> 0]

ListRequest(skip, limit) ==
    [Request("list", 0, NoBody) EXCEPT !.skip = skip, !.limit = limit]

NoRequest == Request("none", 0, NoBody)

\* body: the records of the response, none (None) for an error or 204, one
\* (Some(row)) for a record, a sequence of rows for a list
Response(status, detail, body) == [status |-> status, detail |-> detail, body |-> body]

\* the detail messages of main.py that carry a value of the request
EmailRegistered(email) == "Email '" \o email[1] \o "' already registered"

UsernameTaken(username) == "Username '" \o username[1] \o "' already taken"

UserNotFound(user_id) == "User with ID " \o ToString(user_id) \o " not found"

NoResponse == Response(0, "", None)

\* POST /users bodies: the two required fields, all four fields, and a
\* username one character short
CreateBodies ==
    {Body({"email", "username"}, Some(e), Some(u), None, None) :
        e \in Emails, u \in Usernames}
    \cup {Body(Fields, Some(EmailSeq[InitUsers + 1]), Some(NameSeq[InitUsers + 1]),
               Some(f), Some(FALSE)) : f \in FullNames}
    \cup {Body({"email", "username"}, Some(EmailSeq[1]), Some("ab"), None, None)}

\* PUT /users/{user_id} bodies: no field, one field (null included), two fields.
\* Values are those of the first row and the ones no initial row holds.
UpdateEmails == {EmailSeq[1], EmailSeq[InitUsers + 1]}
UpdateUsernames == {NameSeq[1], NameSeq[InitUsers + 1]}

UpdateBodies ==
    {NoBody}
    \cup {Body({"email"}, e, None, None, None) :
            e \in {Some(x) : x \in UpdateEmails} \cup {None}}
    \cup {Body({"username"}, None, u, None, None) :
            u \in {Some(x) : x \in UpdateUsernames} \cup {Some("ab")}}
    \cup {Body({"full_name"}, None, None, f, None) :
            f \in {Some(x) : x \in FullNames} \cup {None}}
    \cup {Body({"is_active"}, None, None, None, a) :
            a \in {Some(FALSE), None}}
    \cup {Body({"email", "username"}, Some(e), Some(u), None, None) :
            e \in UpdateEmails, u \in UpdateUsernames}
    \cup {Body({"email", "full_name"}, Some(e), None, Some(f), None) :
            e \in UpdateEmails, f \in FullNames}

\* path ids: -1 and 0 (not positive), the initial rows' ids and the next one
UserIds == -1..(InitUsers + 1)

\* main.read_users: `limit > 1000`
MaxLimit == 1000

\* GET /users query parameters: around each bound of the handler's tests, and
\* offsets up to the rows a run can hold
Skips == {-1} \cup 0..(InitUsers + 1)
Limits == {-1, 0, 1, 2, MaxLimit, MaxLimit + 1}

-----------------------------------------------------------------------------
(* A request ends: the response is sent and get_db closes the session *)

Finish(p, status, detail, body) ==
    /\ pc' = [pc EXCEPT ![p] = "done"]
    /\ resp' = [resp EXCEPT ![p] = Response(status, detail, body)]
    /\ sess' = [sess EXCEPT ![p] = None]

Goto(p, label) ==
    /\ pc' = [pc EXCEPT ![p] = label]
    /\ resp' = [resp EXCEPT ![p] = NoResponse]

\* except IntegrityError of the handler falling through: the error surfaces as 500
OnIntegrityErrorUncaught(p, detail) == Finish(p, 500, "IntegrityError", None)

\* except IntegrityError: db.rollback() and the request run again from its
\* first lookup
OnIntegrityErrorRetry(p, detail) ==
    /\ pc' = [pc EXCEPT ![p] = IF req[p].op = "create" THEN "c_email" ELSE "u_load"]
    /\ sess' = [sess EXCEPT ![p] = None]
    /\ UNCHANGED resp

\* except IntegrityError: db.rollback(); raise HTTPException(400, detail)
OnIntegrityError(p, detail) == Finish(p, 400, detail, None)

Accept(p, r) ==
    /\ pc[p] = "new"
    /\ \A q \in Procs : q < p => pc[q] # "new"
    /\ req' = [req EXCEPT ![p] = r]

-----------------------------------------------------------------------------
(* main.create_user: POST /users *)

\* a POST /users with a body among `bodies` arrives: FastAPI validates the body
\* against schemas.UserCreate (422) before it calls the handler
ReceiveCreateOf(p, bodies) ==
    \E b \in bodies :
        /\ Accept(p, Request("create", 0, IF UserCreateValid(b) THEN UserCreate(b) ELSE b))
        /\ IF ~UserCreateValid(b)
           THEN Finish(p, 422, "validation error", None)
           ELSE Goto(p, "c_email") /\ UNCHANGED sess
        /\ UNCHANGED <<users, nextId>>

ReceiveCreate(p) == ReceiveCreateOf(p, CreateBodies)

\* the two lookups in the other order: the username first
CreateCheckEmailAfterUsername(p) ==
    /\ pc[p] = "c_email"
    /\ IF get_user_by_username(users, req[p].user.username) # None
       THEN Finish(p, 400, UsernameTaken(req[p].user.username), None)
       ELSE IF get_user_by_email(users, req[p].user.email) # None
       THEN Finish(p, 400, EmailRegistered(req[p].user.email), None)
       ELSE Goto(p, "c_username") /\ UNCHANGED sess
    /\ UNCHANGED <<users, nextId, req>>

CreateCheckEmail(p) ==
    /\ pc[p] = "c_email"
    /\ IF get_user_by_email(users, req[p].user.email) # None
       THEN Finish(p, 400, EmailRegistered(req[p].user.email), None)
       ELSE Goto(p, "c_username") /\ UNCHANGED sess
    /\ UNCHANGED <<users, nextId, req>>

\* the username pre-check left out
CreateCheckUsernameSkipped(p) ==
    /\ pc[p] = "c_username"
    /\ Goto(p, "c_commit")
    /\ UNCHANGED <<users, nextId, req, sess>>

CreateCheckUsername(p) ==
    /\ pc[p] = "c_username"
    /\ IF get_user_by_username(users, req[p].user.username) # None
       THEN Finish(p, 400, UsernameTaken(req[p].user.username), None)
       ELSE Goto(p, "c_commit") /\ UNCHANGED sess
    /\ UNCHANGED <<users, nextId, req>>

\* crud.create_user up to db.commit(), and the handler's except IntegrityError
CreateCommit(p) ==
    /\ pc[p] = "c_commit"
    /\ LET u == req[p].user
           db_user == Row(nextId, u.email, u.username, u.full_name, u.is_active,
                          Now, None)
       IN  IF IntegrityOk(users, db_user)
           THEN /\ users' = (nextId :> db_user) @@ users
                /\ nextId' = nextId + 1
                /\ sess' = [sess EXCEPT ![p] = Some(db_user)]
                /\ Goto(p, "c_refresh")
           ELSE /\ OnIntegrityError(p, "User with this email or username already exists")
                /\ UNCHANGED <<users, nextId>>
    /\ UNCHANGED req

\* crud.create_user: db.refresh(db_user); return db_user
CreateRefresh(p) ==
    /\ pc[p] = "c_refresh"
    /\ LET row == get_user(users, sess[p][1].id)
       IN  IF row = None
           THEN Finish(p, 500, "InvalidRequestError", None)
           ELSE Finish(p, 201, "", row)
    /\ UNCHANGED <<users, nextId, req>>

-----------------------------------------------------------------------------
(* main.update_user: PUT /users/{user_id} *)

\* the statement an update runs next, from the handler's `if user.email:` and
\* `if user.username:` tests
AfterEntry(b) ==
    IF Truthy(b.email) THEN "u_email"
    ELSE IF Truthy(b.username) THEN "u_username" ELSE "u_load"

AfterEmail(b) == IF Truthy(b.username) THEN "u_username" ELSE "u_load"

\* the `if not user.model_dump(exclude_unset=True)` test left out
ReceiveUpdateNoEmptyCheck(p) ==
    \E user_id \in UserIds, b \in UpdateBodies :
        /\ Accept(p, Request("update", user_id, b))
        /\ IF ~UserUpdateValid(b)
           THEN Finish(p, 422, "validation error", None)
           ELSE IF user_id < 1
           THEN Finish(p, 400, "User ID must be a positive integer", None)
           ELSE Goto(p, AfterEntry(b)) /\ UNCHANGED sess
        /\ UNCHANGED <<users, nextId>>

\* a PUT /users/{user_id} with an id among `ids` and a body among `bodies`
\* arrives: validation against schemas.UserUpdate (422), then the handler's
\* tests of the id and of the empty body
ReceiveUpdateOf(p, ids, bodies) ==
    \E user_id \in ids, b \in bodies :
        /\ Accept(p, Request("update", user_id, b))
        /\ IF ~UserUpdateValid(b)
           THEN Finish(p, 422, "validation error", None)
           ELSE IF user_id < 1
           THEN Finish(p, 400, "User ID must be a positive integer", None)
           ELSE IF b.sent = {}
           THEN Finish(p, 400, "At least one field must be provided for update", None)
           ELSE Goto(p, AfterEntry(b)) /\ UNCHANGED sess
        /\ UNCHANGED <<users, nextId>>

ReceiveUpdate(p) == ReceiveUpdateOf(p, UserIds, UpdateBodies)

\* the pre-check without `existing_user.id != user_id`
UpdateCheckEmailAnyHolder(p) ==
    /\ pc[p] = "u_email"
    /\ LET existing_user == get_user_by_email(users, req[p].user.email)
       IN  IF existing_user # None
           THEN Finish(p, 400, EmailRegistered(req[p].user.email), None)
           ELSE /\ sess' = [sess EXCEPT ![p] = existing_user]
                /\ Goto(p, AfterEmail(req[p].user))
    /\ UNCHANGED <<users, nextId, req>>

\* the email pre-check left out
UpdateCheckEmailSkipped(p) ==
    /\ pc[p] = "u_email"
    /\ Goto(p, AfterEmail(req[p].user))
    /\ UNCHANGED <<users, nextId, req, sess>>

\* existing_user = crud.get_user_by_email(db, user.email).  A row found with the
\* request's own id stays loaded in the session, referenced by existing_user.
UpdateCheckEmail(p) ==
    /\ pc[p] = "u_email"
    /\ LET existing_user == get_user_by_email(users, req[p].user.email)
       IN  IF existing_user # None /\ existing_user[1].id # req[p].user_id
           THEN Finish(p, 400, EmailRegistered(req[p].user.email), None)
           ELSE /\ sess' = [sess EXCEPT ![p] = existing_user]
                /\ Goto(p, AfterEmail(req[p].user))
    /\ UNCHANGED <<users, nextId, req>>

\* existing_user = crud.get_user_by_username(db, user.username).  The session's
\* identity map answers a row it already holds with the object it holds, as
\* loaded; a result of None drops the last reference to that object.
UpdateCheckUsername(p) ==
    /\ pc[p] = "u_username"
    /\ LET found == get_user_by_username(users, req[p].user.username)
           existing_user ==
               IF found # None /\ sess[p] # None /\ found[1].id = sess[p][1].id
               THEN sess[p] ELSE found
       IN  IF existing_user # None /\ existing_user[1].id # req[p].user_id
           THEN Finish(p, 400, UsernameTaken(req[p].user.username), None)
           ELSE /\ sess' = [sess EXCEPT ![p] = existing_user]
                /\ Goto(p, "u_load")
    /\ UNCHANGED <<users, nextId, req>>

\* crud.update_user: db_user = get_user(db, user_id); None is the handler's 404
UpdateLoad(p) ==
    /\ pc[p] = "u_load"
    /\ LET found == get_user(users, req[p].user_id)
       IN  IF found = None
           THEN Finish(p, 404, UserNotFound(req[p].user_id), None)
           ELSE /\ sess' = [sess EXCEPT ![p] = IF sess[p] # None THEN sess[p] ELSE found]
                /\ Goto(p, "u_commit")
    /\ UNCHANGED <<users, nextId, req>>

\* model_dump(exclude_none=True): a field sent as null taken as not sent
ChangedExcludeNone(db_user, b) == {f \in b.sent : b[f] # None /\ b[f] # db_user[f]}

\* the attributes whose setattr changes the loaded object: the columns of the
\* UPDATE the flush emits
Changed(db_user, b) == {f \in b.sent : b[f] # db_user[f]}

\* full_name written from the body whether supplied or not
UpdatedWithFullName(row, b, changed) ==
    [row EXCEPT !.email = IF "email" \in changed THEN b.email ELSE @,
                !.username = IF "username" \in changed THEN b.username ELSE @,
                !.full_name = b.full_name,
                !.is_active = IF "is_active" \in changed THEN b.is_active ELSE @,
                !.updated_at = Some(Now)]

\* created_at stamped by the UPDATE as well
UpdatedStampsCreatedAt(row, b, changed) ==
    [row EXCEPT !.email = IF "email" \in changed THEN b.email ELSE @,
                !.username = IF "username" \in changed THEN b.username ELSE @,
                !.full_name = IF "full_name" \in changed THEN b.full_name ELSE @,
                !.is_active = IF "is_active" \in changed THEN b.is_active ELSE @,
                !.created_at = Now,
                !.updated_at = Some(Now)]

\* the row after UPDATE users SET <changed columns>, updated_at = now()
Updated(row, b, changed) ==
    [row EXCEPT !.email = IF "email" \in changed THEN b.email ELSE @,
                !.username = IF "username" \in changed THEN b.username ELSE @,
                !.full_name = IF "full_name" \in changed THEN b.full_name ELSE @,
                !.is_active = IF "is_active" \in changed THEN b.is_active ELSE @,
                !.updated_at = Some(Now)]

\* a rejected UPDATE that leaves the columns without a unique index written
UpdateCommitPartial(p) ==
    /\ pc[p] = "u_commit"
    /\ LET user_id == req[p].user_id
           changed == Changed(sess[p][1], req[p].user)
       IN  IF changed = {}
           THEN Goto(p, "u_refresh") /\ UNCHANGED <<users, sess>>
           ELSE IF user_id \notin DOMAIN users
           THEN Finish(p, 500, "StaleDataError", None) /\ UNCHANGED users
           ELSE LET row == Updated(users[user_id], req[p].user, changed)
                IN  IF IntegrityOk(users, row)
                    THEN /\ users' = [users EXCEPT ![user_id] = row]
                         /\ Goto(p, "u_refresh")
                         /\ UNCHANGED sess
                    ELSE /\ OnIntegrityError(p, "Email or username already exists")
                         /\ users' = [users EXCEPT ![user_id] =
                                Updated(@, req[p].user, changed \ {"email", "username"})]
    /\ UNCHANGED <<nextId, req>>

\* an UPDATE that sets every column from the loaded object, not the changed
\* ones alone
UpdateCommitWholeRow(p) ==
    /\ pc[p] = "u_commit"
    /\ LET user_id == req[p].user_id
           changed == Changed(sess[p][1], req[p].user)
       IN  IF changed = {}
           THEN Goto(p, "u_refresh") /\ UNCHANGED <<users, sess>>
           ELSE IF user_id \notin DOMAIN users
           THEN Finish(p, 500, "StaleDataError", None) /\ UNCHANGED users
           ELSE LET row == Updated(sess[p][1], req[p].user, changed)
                IN  IF IntegrityOk(users, row)
                    THEN /\ users' = [users EXCEPT ![user_id] = row]
                         /\ Goto(p, "u_refresh")
                         /\ UNCHANGED sess
                    ELSE /\ OnIntegrityError(p, "Email or username already exists")
                         /\ UNCHANGED users
    /\ UNCHANGED <<nextId, req>>

\* a commit that writes the loaded object back as a whole, inserting the row
\* when the UPDATE matches none
UpdateCommitUpsert(p) ==
    /\ pc[p] = "u_commit"
    /\ LET user_id == req[p].user_id
           changed == Changed(sess[p][1], req[p].user)
       IN  IF changed = {}
           THEN Goto(p, "u_refresh") /\ UNCHANGED <<users, sess>>
           ELSE LET row == Updated(sess[p][1], req[p].user, changed)
                IN  IF IntegrityOk(users, row)
                    THEN /\ users' = [i \in DOMAIN users \cup {user_id} |->
                                        IF i = user_id THEN row ELSE users[i]]
                         /\ Goto(p, "u_refresh")
                         /\ UNCHANGED sess
                    ELSE /\ OnIntegrityError(p, "Email or username already exists")
                         /\ UNCHANGED users
    /\ UNCHANGED <<nextId, req>>

\* crud.update_user: the setattr loop and db.commit(), and the handler's
\* except IntegrityError.  No changed attribute: no UPDATE is emitted.  An UPDATE
\* that matches no row raises StaleDataError, which the handler does not catch.
UpdateCommit(p) ==
    /\ pc[p] = "u_commit"
    /\ LET user_id == req[p].user_id
           changed == Changed(sess[p][1], req[p].user)
       IN  IF changed = {}
           THEN Goto(p, "u_refresh") /\ UNCHANGED <<users, sess>>
           ELSE IF user_id \notin DOMAIN users
           THEN Finish(p, 500, "StaleDataError", None) /\ UNCHANGED users
           ELSE LET row == Updated(users[user_id], req[p].user, changed)
                IN  IF IntegrityOk(users, row)
                    THEN /\ users' = [users EXCEPT ![user_id] = row]
                         /\ Goto(p, "u_refresh")
                         /\ UNCHANGED sess
                    ELSE /\ OnIntegrityError(p, "Email or username already exists")
                         /\ UNCHANGED users
    /\ UNCHANGED <<nextId, req>>

\* crud.update_user: db.refresh(db_user); return db_user
UpdateRefresh(p) ==
    /\ pc[p] = "u_refresh"
    /\ LET row == get_user(users, req[p].user_id)
       IN  IF row = None
           THEN Finish(p, 500, "InvalidRequestError", None)
           ELSE Finish(p, 200, "", row)
    /\ UNCHANGED <<users, nextId, req>>

-----------------------------------------------------------------------------
(* main.delete_user: DELETE /users/{user_id} *)

ReceiveDelete(p) ==
    \E user_id \in UserIds :
        /\ Accept(p, Request("delete", user_id, NoBody))
        /\ IF user_id < 1
           THEN Finish(p, 400, "User ID must be a positive integer", None)
           ELSE Goto(p, "d_load") /\ UNCHANGED sess
        /\ UNCHANGED <<users, nextId>>

\* crud.delete_user: db_user = get_user(db, user_id); None is the handler's 404
DeleteLoad(p) ==
    /\ pc[p] = "d_load"
    /\ LET found == get_user(users, req[p].user_id)
       IN  IF found = None
           THEN Finish(p, 404, UserNotFound(req[p].user_id), None)
           ELSE sess' = [sess EXCEPT ![p] = found] /\ Goto(p, "d_commit")
    /\ UNCHANGED <<users, nextId, req>>

\* a delete that leaves the row in the table and under its unique indexes
DeleteCommitKeepsRow(p) ==
    /\ pc[p] = "d_commit"
    /\ Finish(p, 204, "", None)
    /\ UNCHANGED <<users, nextId, req>>

\* crud.delete_user: db.delete(db_user); db.commit(); return True.  A DELETE that
\* matches no row is only warned about.
DeleteCommit(p) ==
    /\ pc[p] = "d_commit"
    /\ users' = [i \in DOMAIN users \ {req[p].user_id} |-> users[i]]
    /\ Finish(p, 204, "", None)
    /\ UNCHANGED <<nextId, req>>

-----------------------------------------------------------------------------
(* main.read_user: GET /users/{user_id} *)

\* the `if user_id < 1` test left out
ReceiveReadNoIdCheck(p) ==
    \E user_id \in UserIds :
        /\ Accept(p, Request("read", user_id, NoBody))
        /\ Goto(p, "r_load")
        /\ UNCHANGED <<users, nextId, sess>>

ReceiveRead(p) ==
    \E user_id \in UserIds :
        /\ Accept(p, Request("read", user_id, NoBody))
        /\ IF user_id < 1
           THEN Finish(p, 400, "User ID must be a positive integer", None)
           ELSE Goto(p, "r_load") /\ UNCHANGED sess
        /\ UNCHANGED <<users, nextId>>

\* db_user = crud.get_user(db, user_id); None is the handler's 404
ReadLoad(p) ==
    /\ pc[p] = "r_load"
    /\ LET db_user == get_user(users, req[p].user_id)
       IN  IF db_user = None
           THEN Finish(p, 404, UserNotFound(req[p].user_id), None)
           ELSE Finish(p, 200, "", db_user)
    /\ UNCHANGED <<users, nextId, req>>

-----------------------------------------------------------------------------
(* main.read_users: GET /users *)

\* the `limit > 1000` test left out
ReceiveListNoUpperBound(p) ==
    \E skip \in Skips, limit \in Limits :
        /\ Accept(p, ListRequest(skip, limit))
        /\ IF skip < 0
           THEN Finish(p, 400, "Parameter 'skip' must be >= 0", None)
           ELSE IF limit < 1
           THEN Finish(p, 400, "Parameter 'limit' must be between 1 and 1000", None)
           ELSE Goto(p, "l_query") /\ UNCHANGED sess
        /\ UNCHANGED <<users, nextId>>

ReceiveList(p) ==
    \E skip \in Skips, limit \in Limits :
        /\ Accept(p, ListRequest(skip, limit))
        /\ IF skip < 0
           THEN Finish(p, 400, "Parameter 'skip' must be >= 0", None)
           ELSE IF limit < 1 \/ limit > MaxLimit
           THEN Finish(p, 400, "Parameter 'limit' must be between 1 and 1000", None)
           ELSE Goto(p, "l_query") /\ UNCHANGED sess
        /\ UNCHANGED <<users, nextId>>

\* the orders in which the store may return the rows of a SELECT that has no
\* ORDER BY: every arrangement of the live rows
Orders(tbl) ==
    {o \in [1..Cardinality(DOMAIN tbl) -> DOMAIN tbl] :
        \A i, j \in DOMAIN o : i # j => o[i] # o[j]}

Min(a, b) == IF a <= b THEN a ELSE b

Max(a, b) == IF a >= b THEN a ELSE b

\* crud.get_users: db.query(models.User).offset(skip).limit(limit).all()
get_users(tbl, order, skip, limit) ==
    [i \in 1..Min(limit, Max(0, Len(order) - skip)) |-> tbl[order[skip + i]]]

ListQuery(p) ==
    /\ pc[p] = "l_query"
    /\ \E order \in Orders(users) :
        Finish(p, 200, "", get_users(users, order, req[p].skip, req[p].limit))
    /\ UNCHANGED <<users, nextId, req>>

-----------------------------------------------------------------------------
(* The service: any worker takes any step *)

Init ==
    /\ \E k \in 0..InitUsers : users = Table(k) /\ nextId = k + 1
    /\ pc = [p \in 1..MaxReqs |-> "new"]
    /\ req = [p \in 1..MaxReqs |-> NoRequest]
    /\ sess = [p \in 1..MaxReqs |-> None]
    /\ resp = [p \in 1..MaxReqs |-> NoResponse]

Next ==
    \E p \in Procs :
        \/ ReceiveCreate(p)
        \/ CreateCheckEmail(p)
        \/ CreateCheckUsername(p)
        \/ CreateCommit(p)
        \/ CreateRefresh(p)
        \/ ReceiveUpdate(p)
        \/ UpdateCheckEmail(p)
        \/ UpdateCheckUsername(p)
        \/ UpdateLoad(p)
        \/ UpdateCommit(p)
        \/ UpdateRefresh(p)
        \/ ReceiveDelete(p)
        \/ DeleteLoad(p)
        \/ DeleteCommit(p)
        \/ ReceiveRead(p)
        \/ ReadLoad(p)
        \/ ReceiveList(p)
        \/ ListQuery(p)

Spec == Init /\ [][Next]_vars

-----------------------------------------------------------------------------
(* N writers racing for one value.  The requests are in flight when the    *)
(* run starts, as test_concurrent_user_creation_same_email submits them.   *)

\* N = 2..RaceReqs creates of one free email (or one free username); the other
\* unique field of each is free too: its own fresh value, or the first free one
InitCreateRace ==
    \E n \in 2..RaceReqs, k \in 0..InitUsers :
        /\ users = Table(k) /\ nextId = k + 1
        /\ \E shared \in {"email", "username"}, own \in [1..n -> BOOLEAN] :
            req = [p \in 1..n |->
                    LET i == IF own[p] THEN k + p ELSE k + 1
                    IN  Request("create", 0,
                            UserCreate(Body({"email", "username"},
                                Some(EmailSeq[IF shared = "email" THEN k + 1 ELSE i]),
                                Some(NameSeq[IF shared = "username" THEN k + 1 ELSE i]),
                                None, None)))]
        /\ pc = [p \in 1..n |-> "c_email"]
        /\ sess = [p \in 1..n |-> None]
        /\ resp = [p \in 1..n |-> NoResponse]

NextCreateRace ==
    \E p \in Procs :
        \/ CreateCheckEmail(p)
        \/ CreateCheckUsername(p)
        \/ CreateCommit(p)
        \/ CreateRefresh(p)

SpecCreateRace == InitCreateRace /\ [][NextCreateRace]_vars

\* N = 2..RaceReqs updates, the p-th of row p, all to the one email no row
\* holds; some also supply full_name
InitUpdateRace ==
    \E n \in 2..RaceReqs, extra \in 0..1 :
        /\ users = Table(n + extra) /\ nextId = n + extra + 1
        /\ \E more \in [1..n -> BOOLEAN] :
            req = [p \in 1..n |->
                    Request("update", p,
                        IF more[p]
                        THEN Body({"email", "full_name"}, Some(EmailSeq[n + extra + 1]),
                                  None, Some("X"), None)
                        ELSE Body({"email"}, Some(EmailSeq[n + extra + 1]), None, None,
                                  None))]
        /\ pc = [p \in 1..n |-> "u_email"]
        /\ sess = [p \in 1..n |-> None]
        /\ resp = [p \in 1..n |-> NoResponse]

NextUpdateRace ==
    \E p \in Procs :
        \/ UpdateCheckEmail(p)
        \/ UpdateLoad(p)
        \/ UpdateCommit(p)
        \/ UpdateRefresh(p)

SpecUpdateRace == InitUpdateRace /\ [][NextUpdateRace]_vars

\* N = 2..RaceReqs writers, at least one create and one update, all supplying
\* the one email (or the one username) no row holds; the p-th request, if an
\* update, is of row p, and if a create, has its other unique field to itself
InitMixedRace ==
    \E n \in 2..RaceReqs, shared \in {"email", "username"} :
      \E kind \in [1..n -> {"create", "update"}] :
        /\ \E p, q \in 1..n : kind[p] = "create" /\ kind[q] = "update"
        /\ users = Table(n) /\ nextId = n + 1
        /\ req = [p \in 1..n |->
                    IF kind[p] = "create"
                    THEN Request("create", 0,
                            UserCreate(Body({"email", "username"},
                                Some(EmailSeq[IF shared = "email" THEN n + 1 ELSE n + 1 + p]),
                                Some(NameSeq[IF shared = "username" THEN n + 1 ELSE n + 1 + p]),
                                None, None)))
                    ELSE Request("update", p,
                            IF shared = "email"
                            THEN Body({"email"}, Some(EmailSeq[n + 1]), None, None, None)
                            ELSE Body({"username"}, None, Some(NameSeq[n + 1]), None, None))]
        /\ pc = [p \in 1..n |->
                    IF kind[p] = "create" THEN "c_email"
                    ELSE IF shared = "email" THEN "u_email" ELSE "u_username"]
        /\ sess = [p \in 1..n |-> None]
        /\ resp = [p \in 1..n |-> NoResponse]

NextMixedRace ==
    \E p \in Procs :
        \/ CreateCheckEmail(p)
        \/ CreateCheckUsername(p)
        \/ CreateCommit(p)
        \/ CreateRefresh(p)
        \/ UpdateCheckEmail(p)
        \/ UpdateCheckUsername(p)
        \/ UpdateLoad(p)
        \/ UpdateCommit(p)
        \/ UpdateRefresh(p)

SpecMixedRace == InitMixedRace /\ [][NextMixedRace]_vars

-----------------------------------------------------------------------------
(* Creates and updates whose username and full_name are at the bounds of   *)
(* schemas.py, as test_users_edge_cases.py submits them.                   *)

RECURSIVE Repeat(_, _)
Repeat(s, n) == IF n = 0 THEN "" ELSE s \o Repeat(s, n - 1)

\* usernames of 2, 3, 50 and 51 characters; full names of 100 and 101
BoundaryUsernames ==
    {"ab", "abc", Repeat("a", UsernameMaxLength), Repeat("a", UsernameMaxLength + 1)}

BoundaryFullNames ==
    {Repeat("A", FullNameMaxLength), Repeat("A", FullNameMaxLength + 1)}

BoundaryCreateBodies ==
    {Body({"email", "username"}, Some(EmailSeq[InitUsers + 1]), Some(u), None, None) :
        u \in BoundaryUsernames}
    \cup {Body({"email", "username", "full_name"}, Some(EmailSeq[InitUsers + 1]),
                Some(u), f, None) :
            u \in {"abc", Repeat("a", UsernameMaxLength)},
            f \in {Some(x) : x \in BoundaryFullNames} \cup {None}}

BoundaryUpdateBodies ==
    {Body({"username"}, None, Some(u), None, None) : u \in BoundaryUsernames}
    \cup {Body({"full_name"}, None, None, f, None) :
            f \in {Some(x) : x \in BoundaryFullNames} \cup {None}}
    \cup {Body({"username", "full_name"}, None, Some(u), Some(f), None) :
            u \in {"ab", Repeat("a", UsernameMaxLength)}, f \in BoundaryFullNames}

NextBounds ==
    \E p \in Procs :
        \/ ReceiveCreateOf(p, BoundaryCreateBodies)
        \/ CreateCheckEmail(p)
        \/ CreateCheckUsername(p)
        \/ CreateCommit(p)
        \/ CreateRefresh(p)
        \/ ReceiveUpdateOf(p, 1..InitUsers, BoundaryUpdateBodies)
        \/ UpdateCheckUsername(p)
        \/ UpdateLoad(p)
        \/ UpdateCommit(p)
        \/ UpdateRefresh(p)

SpecBounds == Init /\ [][NextBounds]_vars

-----------------------------------------------------------------------------
(* Vocabulary of the properties *)

AllDone == \A p \in Procs : pc[p] = "done"

Succeeded(p) == pc[p] = "done" /\ resp[p].status \in {200, 201, 204}

Conflicted(p) == pc[p] = "done" /\ resp[p].status = 400

HoldersOfEmail(tbl, email) == {i \in DOMAIN tbl : tbl[i].email = email}

HoldersOfUsername(tbl, username) == {i \in DOMAIN tbl : tbl[i].username = username}

CommitConflictDetails ==
    {"User with this email or username already exists",
     "Email or username already exists"}

-----------------------------------------------------------------------------
(* C1: in every reachable state, whatever the interleaving of creates,     *)
(* updates and deletes, no two live rows share an email and no two live    *)
(* rows share a username.                                                  *)
C1_UniqueEmailAndUsername ==
    \A i, j \in DOMAIN users :
        i # j => users[i].email # users[j].email /\ users[i].username # users[j].username

\* a writer passed its pre-checks and was stopped by the store at commit,
\* beside the row of the writer that won
C1_Witness ==
    \E p, q \in Procs :
        /\ p # q
        /\ Conflicted(p) /\ resp[p].detail \in CommitConflictDetails
        /\ NotNullOk(req[p].user)
        /\ Succeeded(q) /\ req[q].op \in {"create", "update"}
        /\ Cardinality(DOMAIN users) >= 2

(* C2: N >= 2 concurrent creates that all supply one free email, or all    *)
(* supply one free username (the other unique field of each being free     *)
(* too): once all have finished, exactly one has succeeded (201) and the   *)
(* other N-1 have ended in conflict (400), whatever the interleaving of    *)
(* their lookups and commits.                                              *)
C2_CreateRaceOneWinner ==
    AllDone =>
        /\ Cardinality({p \in Procs : resp[p].status = 201}) = 1
        /\ \A p \in Procs : resp[p].status \in {201, 400}

\* the race is over, and a loser was stopped only at commit
C2_Witness ==
    /\ AllDone
    /\ Cardinality({p \in Procs : resp[p].status = 201}) = 1
    /\ \E p \in Procs :
        resp[p].detail = "User with this email or username already exists"
    /\ \E p \in Procs : resp[p].detail = EmailRegistered(req[p].user.email)

(* C3: N >= 2 concurrent updates, each of a different existing row, that   *)
(* all supply one free email: once all have finished, exactly one has      *)
(* succeeded (200), all others have ended in conflict (400), and exactly   *)
(* one row holds that email.                                               *)
C3_UpdateRaceOneWinner ==
    AllDone =>
        /\ Cardinality({p \in Procs : resp[p].status = 200}) = 1
        /\ \A p \in Procs : resp[p].status \in {200, 400}
        /\ \A p \in Procs :
            Cardinality(HoldersOfEmail(users, req[p].user.email)) = 1

\* the race is over, a loser was stopped only at commit, and the winner's row
\* holds the email
C3_Witness ==
    /\ AllDone
    /\ \E p \in Procs :
        /\ resp[p].status = 200
        /\ users[req[p].user_id].email = req[p].user.email
    /\ \E p \in Procs : resp[p].detail = "Email or username already exists"

-----------------------------------------------------------------------------
(* Steps of one request *)

UpdateLabels == {"u_email", "u_username", "u_load", "u_commit", "u_refresh"}

\* request p takes a step
Steps(p) == pc'[p] # pc[p]

\* request p takes the step that ends it
Ends(p) == pc[p] # "done" /\ pc'[p] = "done"

(* C4: a create whose email, or whose username, is held by a live row when *)
(* its pre-check looks that value up ends in conflict (400) at that        *)
(* lookup, inserts no row and leaves every row as it was.                  *)
C4_CreatePrecheckConflict ==
    [][\A p \in Procs :
        (\/ /\ pc[p] = "c_email" /\ Steps(p)
            /\ HoldersOfEmail(users, req[p].user.email) # {}
         \/ /\ pc[p] = "c_username" /\ Steps(p)
            /\ HoldersOfUsername(users, req[p].user.username) # {})
        => /\ pc'[p] = "done" /\ resp'[p].status = 400
           /\ users' = users /\ nextId' = nextId]_vars

\* a create passed the email lookup and was refused at the username lookup
C4_Witness ==
    \E p \in Procs :
        /\ Conflicted(p) /\ req[p].op = "create"
        /\ resp[p].detail = UsernameTaken(req[p].user.username)
        /\ HoldersOfUsername(users, req[p].user.username) # {}
        /\ HoldersOfEmail(users, req[p].user.email) = {}

\* the UPDATE of request p writes an email or a username another row holds
WritesTakenValue(p) ==
    /\ req[p].user_id \in DOMAIN users
    /\ \E f \in {"email", "username"} \cap req[p].user.sent :
        /\ req[p].user[f] # sess[p][1][f]
        /\ \E i \in DOMAIN users \ {req[p].user_id} : users[i][f] = req[p].user[f]

(* C5: a create or update that passed both pre-checks and whose commit the *)
(* store rejects, because another row by now holds its email or username,  *)
(* ends in status 400, the status of a pre-check conflict, and writes      *)
(* nothing.                                                                *)
C5_CommitConflictIs400 ==
    [][\A p \in Procs :
        (\/ /\ pc[p] = "c_commit" /\ Steps(p)
            /\ \/ HoldersOfEmail(users, req[p].user.email) # {}
               \/ HoldersOfUsername(users, req[p].user.username) # {}
         \/ /\ pc[p] = "u_commit" /\ Steps(p)
            /\ WritesTakenValue(p))
        => /\ pc'[p] = "done" /\ resp'[p].status = 400
           /\ users' = users]_vars

\* an update supplying no null was refused by the store at commit
C5_Witness ==
    \E p \in Procs :
        /\ Conflicted(p) /\ req[p].op = "update"
        /\ resp[p].detail = "Email or username already exists"
        /\ \A f \in req[p].user.sent : req[p].user[f] # None

(* C6: an update addressed to a positive id that no row has (here: an id   *)
(* the store has not assigned yet) ends in not-found (404) for every       *)
(* non-empty valid body, also when the body's email or username is held by *)
(* a live row.                                                             *)
C6_UpdateOfMissingIdIsNotFound ==
    [][\A p \in Procs :
        (/\ req[p].op = "update" /\ pc[p] \in UpdateLabels /\ Ends(p)
         /\ req[p].user_id >= nextId)
        => resp'[p].status = 404]_vars

\* the body of request p supplies email and/or username, each with the value
\* the addressed row holds now, and no null is_active
SelfValues(p) ==
    /\ req[p].user_id \in DOMAIN users
    /\ req[p].user.sent \cap {"email", "username"} # {}
    /\ \A f \in req[p].user.sent \cap {"email", "username"} :
        req[p].user[f] = users[req[p].user_id][f]
    /\ "is_active" \in req[p].user.sent => req[p].user.is_active # None

(* C7: an update that sets a live row's email and/or username to the value *)
(* that row holds never ends in conflict: every step it takes while the    *)
(* row holds these values keeps the row's email and username, and a step   *)
(* that ends the request ends it in success (200).                         *)
C7_SelfUpdateSucceeds ==
    [][\A p \in Procs :
        (/\ req[p].op = "update" /\ pc[p] \in UpdateLabels /\ Steps(p)
         /\ SelfValues(p))
        => /\ pc'[p] = "done" => resp'[p].status = 200
           /\ req[p].user_id \in DOMAIN users'
           /\ users'[req[p].user_id].email = users[req[p].user_id].email
           /\ users'[req[p].user_id].username = users[req[p].user_id].username]_vars

\* the only request of the run set a row's email and username to its own
\* values and succeeded
C7_Witness ==
    \E p \in Procs :
        /\ \A q \in Procs \ {p} : pc[q] = "new"
        /\ pc[p] = "done" /\ req[p].op = "update" /\ resp[p].status = 200
        /\ req[p].user.sent = {"email", "username"}
        /\ users[req[p].user_id].email = req[p].user.email
        /\ users[req[p].user_id].username = req[p].user.username

(* C8: an update of a live row A whose body supplies an email (or a        *)
(* username) that a different live row B holds when the pre-check looks it *)
(* up ends in conflict (400) at that lookup, and no field of any row is    *)
(* changed, the other fields of the body included.                         *)
C8_UpdatePrecheckConflict ==
    [][\A p \in Procs :
        (/\ req[p].user_id \in DOMAIN users /\ Steps(p)
         /\ \/ /\ pc[p] = "u_email"
               /\ HoldersOfEmail(users, req[p].user.email) \ {req[p].user_id} # {}
            \/ /\ pc[p] = "u_username"
               /\ HoldersOfUsername(users, req[p].user.username) \ {req[p].user_id} # {})
        => /\ pc'[p] = "done" /\ resp'[p].status = 400
           /\ users' = users]_vars

\* an update of a live row supplying another row's email and a full_name was
\* refused, and the full_name was not applied
C8_Witness ==
    \E p \in Procs :
        /\ Conflicted(p) /\ req[p].op = "update"
        /\ req[p].user.sent = {"email", "full_name"}
        /\ resp[p].detail = EmailRegistered(req[p].user.email)
        /\ req[p].user_id \in DOMAIN users
        /\ users[req[p].user_id].full_name # req[p].user.full_name
        /\ HoldersOfEmail(users, req[p].user.email) \ {req[p].user_id} # {}

(* C9: an update changes no field it was not given: in every step of an    *)
(* update, its commit included, the addressed row keeps its id, its        *)
(* created_at and every field among email, username, full_name, is_active  *)
(* that the body does not supply, every other row is unchanged, and no row *)
(* appears or disappears.                                                  *)
C9_UpdateFrame ==
    [][\A p \in Procs :
        (req[p].op = "update" /\ pc[p] \in UpdateLabels /\ Steps(p))
        => /\ DOMAIN users' = DOMAIN users
           /\ \A i \in DOMAIN users :
                IF i # req[p].user_id
                THEN users'[i] = users[i]
                ELSE /\ users'[i].id = users[i].id
                     /\ users'[i].created_at = users[i].created_at
                     /\ \A f \in Fields \ req[p].user.sent :
                            users'[i][f] = users[i][f]]_vars

\* after an earlier write of its full_name, a row was updated by a body that
\* supplies only is_active, and both values stand
C9_Witness ==
    \E p \in Procs :
        /\ pc[p] = "done" /\ req[p].op = "update" /\ resp[p].status = 200
        /\ req[p].user.sent = {"is_active"}
        /\ req[p].user_id \in DOMAIN users
        /\ users[req[p].user_id].is_active = req[p].user.is_active
        /\ users[req[p].user_id].is_active = Some(FALSE)
        /\ users[req[p].user_id].full_name = Some("X")
        /\ users[req[p].user_id].updated_at # None

(* C10: a row's updated_at is absent when the row is created and changes   *)
(* only by an update of that row, and when an update of a row ends in      *)
(* success (200) the row's updated_at is set.                              *)
C10_UpdatedAtSetByEveryUpdate ==
    [][/\ \A i \in DOMAIN users' \ DOMAIN users : users'[i].updated_at = None
       /\ \A i \in DOMAIN users' \cap DOMAIN users :
            users'[i].updated_at # users[i].updated_at =>
                \E p \in Procs :
                    /\ req[p].op = "update" /\ req[p].user_id = i
                    /\ pc[p] = "u_commit" /\ Steps(p)
       /\ \A p \in Procs :
            (/\ req[p].op = "update" /\ Ends(p) /\ resp'[p].status = 200)
            => users'[req[p].user_id].updated_at # None]_vars

-----------------------------------------------------------------------------
(* Requests addressed to one id *)

\* a delete of this id has ended in success (204)
Deleted(user_id) ==
    \E q \in Procs :
        /\ pc[q] = "done" /\ req[q].op = "delete"
        /\ req[q].user_id = user_id /\ resp[q].status = 204

\* the first statement a read, update or delete sends to the store
FirstLabel(r) ==
    IF r.op = "read" THEN "r_load"
    ELSE IF r.op = "delete" THEN "d_load"
    ELSE AfterEntry(r.user)

(* C11: delete is terminal: once a delete of an id has ended in success    *)
(* (204), a read, update or delete of that id whose first access to the    *)
(* store comes later, and is the step that ends it, ends in not-found      *)
(* (404); in particular a second delete does not end in 204.               *)
C11_DeleteIsTerminal ==
    [][\A p \in Procs :
        (/\ req[p].op \in {"read", "update", "delete"}
         /\ pc[p] = FirstLabel(req[p]) /\ Ends(p)
         /\ Deleted(req[p].user_id))
        => resp'[p].status = 404]_vars

\* the same for read and delete alone
ReadOrDeleteAfterDelete ==
    [][\A p \in Procs :
        (/\ req[p].op \in {"read", "delete"}
         /\ pc[p] = FirstLabel(req[p]) /\ Steps(p)
         /\ Deleted(req[p].user_id))
        => pc'[p] = "done" /\ resp'[p].status = 404 /\ users' = users]_vars

\* an update or delete addressed to this id has been received
Touched(user_id) ==
    \E q \in Procs :
        /\ pc[q] # "new" /\ req[q].op \in {"update", "delete"}
        /\ req[q].user_id = user_id

(* C12: round trip: when a create has succeeded (201) and a read of the id *)
(* it returned has succeeded (200), no update or delete of that id having  *)
(* been received, the record read equals the payload on every field the    *)
(* payload supplied, has is_active = true when the payload omitted it,     *)
(* has no full_name when the payload omitted it, and has no updated_at.    *)
C12_CreateReadRoundTrip ==
    \A p, q \in Procs :
        (/\ pc[p] = "done" /\ req[p].op = "create" /\ resp[p].status = 201
         /\ pc[q] = "done" /\ req[q].op = "read" /\ resp[q].status = 200
         /\ req[q].user_id = resp[p].body[1].id
         /\ ~Touched(req[q].user_id))
        => LET payload == req[p].user
               record == resp[q].body[1]
           IN  /\ resp[q].body = resp[p].body
               /\ \A f \in payload.sent : record[f] = payload[f]
               /\ "is_active" \notin payload.sent => record.is_active = Some(TRUE)
               /\ "full_name" \notin payload.sent => record.full_name = None
               /\ record.updated_at = None

\* a create of all four fields and a create of the two required fields, each
\* read back
C12_Witness ==
    \E p, q \in Procs :
        /\ pc[p] = "done" /\ req[p].op = "create" /\ resp[p].status = 201
        /\ pc[q] = "done" /\ req[q].op = "read" /\ resp[q].status = 200
        /\ req[q].user_id = resp[p].body[1].id
        /\ req[p].user.sent = {"email", "username"}
        /\ resp[q].body[1].is_active = Some(TRUE)
        /\ resp[q].body[1].email = req[p].user.email

(* C13: every row's id is a positive integer, the one the store assigned   *)
(* when the row was inserted (the next value of the sequence, which no     *)
(* live row has and which is never assigned again), no two live rows have  *)
(* the same id, and no step of any operation changes the id or the         *)
(* created_at of a row that stays in the table.                            *)
C13_IdAndCreatedAtImmutable ==
    [][/\ \A i \in DOMAIN users' : users'[i].id = i /\ i >= 1
       /\ \A i, j \in DOMAIN users' : i # j => users'[i].id # users'[j].id
       /\ \A i \in DOMAIN users' \ DOMAIN users :
            /\ i = nextId /\ nextId' > i
            /\ \E p \in Procs : req[p].op = "create" /\ pc[p] = "c_commit" /\ Steps(p)
       /\ \A i \in DOMAIN users' \cap DOMAIN users :
            /\ users'[i].id = users[i].id
            /\ users'[i].created_at = users[i].created_at
       /\ nextId' >= nextId]_vars

\* a row inserted in the run was updated afterwards and kept its created_at
C13_Witness ==
    \E i \in DOMAIN users :
        /\ users[i].created_at > 0
        /\ users[i].updated_at # None
        /\ users[i].updated_at[1] > users[i].created_at

-----------------------------------------------------------------------------
(* The outcomes of the error mapping *)

\* 422 structural-validation-failure; 400 invalid-argument or conflict;
\* 404 not-found; 200 / 201 / 204 success
MappedStatuses == {422, 400, 404, 200, 201, 204}

(* C14: every request that has ended, whatever the interleaving with the   *)
(* other creates, updates and deletes, has ended in a mapped outcome:      *)
(* structural-validation-failure (422), invalid-argument or conflict       *)
(* (400), not-found (404) or success (200, 201, 204); none has ended in an *)
(* unmapped failure (500).                                                 *)
C14_EveryOutcomeMapped ==
    \A p \in Procs : pc[p] = "done" => resp[p].status \in MappedStatuses

\* the statements at which a create or update can end in conflict
ConflictLabels == {"c_email", "c_username", "c_commit", "u_email", "u_username", "u_commit"}

\* request p ends in conflict in this step
EndsInConflict(p) ==
    Ends(p) /\ pc[p] \in ConflictLabels /\ resp'[p].status = 400

\* the live rows, other than the one an update addresses, that hold the email
\* or the username the body of p supplies
OtherHolders(p, f) ==
    IF f \notin req[p].user.sent THEN {}
    ELSE {i \in DOMAIN users \ (IF req[p].op = "update" THEN {req[p].user_id} ELSE {}) :
            users[i][f] = req[p].user[f]}

(* C15: a create or update ends in conflict only because of a uniqueness   *)
(* violation: at the step (a pre-check or the commit) in which it ends in  *)
(* conflict, some other live row holds the email or the username that its  *)
(* body supplies.                                                          *)
C15_ConflictOnlyOnUniqueness ==
    [][\A p \in Procs :
        EndsInConflict(p) =>
            OtherHolders(p, "email") \cup OtherHolders(p, "username") # {}]_vars

(* C16: a read, update or delete called with an id <= 0 (the update with a *)
(* body that passes structural validation) ends in invalid-argument (400,  *)
(* "User ID must be a positive integer") in the step that receives it,     *)
(* before any lookup: it never reaches a statement of the store, its       *)
(* outcome is never not-found or success, whatever the body, and the table *)
(* is not modified.                                                        *)
C16_NonPositiveIdRejected ==
    [][\A p \in Procs :
        (/\ pc[p] = "new" /\ Steps(p)
         /\ req'[p].op \in {"read", "update", "delete"}
         /\ req'[p].user_id <= 0)
        => /\ pc'[p] = "done"
           /\ resp'[p].status \notin {404, 200, 201, 204}
           /\ UserUpdateValid(req'[p].user) =>
                /\ resp'[p].status = 400
                /\ resp'[p].detail = "User ID must be a positive integer"
           /\ users' = users /\ nextId' = nextId /\ sess'[p] = None]_vars

\* a read of id 0 and an update of id -1 with a body, both refused, beside a
\* table that holds rows
C16_Witness ==
    \E p, q \in Procs :
        /\ pc[p] = "done" /\ req[p].op = "read" /\ req[p].user_id = 0
        /\ resp[p].status = 400
        /\ pc[q] = "done" /\ req[q].op = "update" /\ req[q].user_id = -1
        /\ req[q].user.sent = {"full_name"}
        /\ resp[q].detail = "User ID must be a positive integer"
        /\ DOMAIN users # {}

(* C17: an update whose body supplies no field ends in invalid-argument    *)
(* (400) in the step that receives it, whether or not a row has the        *)
(* addressed id: it reaches no statement of the store (no lookup, no       *)
(* write), and every row, updated_at included, is as it was.               *)
C17_EmptyUpdateRejected ==
    [][\A p \in Procs :
        (/\ pc[p] = "new" /\ Steps(p)
         /\ req'[p].op = "update" /\ req'[p].user.sent = {})
        => /\ pc'[p] = "done" /\ resp'[p].status = 400
           /\ req'[p].user_id >= 1 =>
                resp'[p].detail = "At least one field must be provided for update"
           /\ users' = users /\ nextId' = nextId /\ sess'[p] = None]_vars

\* empty updates of a live row and of an id no row has, both refused, the live
\* row never stamped
C17_Witness ==
    \E p, q \in Procs :
        /\ pc[p] = "done" /\ req[p].op = "update" /\ req[p].user.sent = {}
        /\ req[p].user_id \in DOMAIN users
        /\ users[req[p].user_id].updated_at = None
        /\ resp[p].detail = "At least one field must be provided for update"
        /\ pc[q] = "done" /\ req[q].op = "update" /\ req[q].user.sent = {}
        /\ req[q].user_id >= 1 /\ req[q].user_id \notin DOMAIN users
        /\ resp[q].detail = "At least one field must be provided for update"

-----------------------------------------------------------------------------
(* GET /users *)

(* C18: list rejects out-of-range pagination instead of clamping it: a     *)
(* list with skip < 0, limit < 1 or limit > 1000 ends in invalid-argument  *)
(* (400, no records) in the step that receives it, every other list goes   *)
(* on to its query and ends in success (200); so a list that has ended has *)
(* ended in 400 exactly when its parameters are out of range.              *)
C18_PaginationRejectedNotClamped ==
    \A p \in Procs :
        (req[p].op = "list" /\ pc[p] # "new") =>
            IF req[p].skip < 0 \/ req[p].limit < 1 \/ req[p].limit > 1000
            THEN pc[p] = "done" /\ resp[p].status = 400 /\ resp[p].body = None
            ELSE pc[p] = "l_query" \/ (pc[p] = "done" /\ resp[p].status = 200)

\* limit = 1001 refused while limit = 1000 returned every row of a table of two
C18_Witness ==
    \E p, q \in Procs :
        /\ pc[p] = "done" /\ req[p].op = "list"
        /\ req[p].skip = 0 /\ req[p].limit = 1001 /\ resp[p].status = 400
        /\ pc[q] = "done" /\ req[q].op = "list"
        /\ req[q].skip = 0 /\ req[q].limit = 1000 /\ resp[q].status = 200
        /\ Len(resp[q].body) = 2

\* the ids of the records of a list response, and the place of one of them
Ids(body) == {body[i].id : i \in 1..Len(body)}

Pos(body, id) == CHOOSE i \in 1..Len(body) : body[i].id = id

\* the records two responses share come in the same order in both
SameRelativeOrder(b1, b2) ==
    \A a, c \in Ids(b1) \cap Ids(b2) :
        Pos(b1, a) < Pos(b1, c) <=> Pos(b2, a) < Pos(b2, c)

\* the result of the query of request p in this step: live records, each once,
\* min(limit, max(0, count - skip)) of them, none when skip >= count
ListWindow(p) ==
    LET count == Cardinality(DOMAIN users)
        body == resp'[p].body
    IN  /\ pc'[p] = "done" /\ resp'[p].status = 200
        /\ Len(body) = Min(req[p].limit, Max(0, count - req[p].skip))
        /\ \A i \in 1..Len(body) :
            body[i].id \in DOMAIN users /\ body[i] = users[body[i].id]
        /\ \A i, j \in 1..Len(body) : i # j => body[i].id # body[j].id
        /\ req[p].skip >= count => body = <<>>
        /\ users' = users

(* C19: for valid (skip, limit), the query of a list returns live records  *)
(* in a stable order, skipping the first skip and taking up to limit: the  *)
(* result has min(limit, max(0, count - skip)) records, count being the    *)
(* number of live rows, has no duplicates, is empty (with success) when    *)
(* skip >= count, and lists the records it shares with the result of any   *)
(* list that ended before in the same order as that result.                *)
C19_ListWindowInStableOrder ==
    [][\A p \in Procs :
        (pc[p] = "l_query" /\ Steps(p))
        => /\ ListWindow(p)
           /\ \A q \in Procs :
                (pc[q] = "done" /\ req[q].op = "list" /\ resp[q].status = 200)
                => SameRelativeOrder(resp'[p].body, resp[q].body)]_vars

\* the same without the order
ListWindowOfLiveRecords ==
    [][\A p \in Procs : (pc[p] = "l_query" /\ Steps(p)) => ListWindow(p)]_vars

-----------------------------------------------------------------------------
(* Messages *)

\* the text w occurs in the message s
Contains(s, w) ==
    \E i \in 1..(Len(s) - Len(w) + 1) : SubSeq(s, i, i + Len(w) - 1) = w

\* the unique fields a message names
NamedFields(detail) ==
    {f \in {"email", "username"} :
        \/ Contains(detail, f)
        \/ Contains(detail, IF f = "email" THEN "Email" ELSE "Username")}

\* request p ends in not-found in this step, with a message that names its id
NotFoundNamesId(p) ==
    (Ends(p) /\ resp'[p].status = 404)
    => /\ req[p].op \in {"read", "update", "delete"}
       /\ Contains(resp'[p].detail, ToString(req[p].user_id))

(* C20: every conflict outcome of a create or update, detected at a        *)
(* pre-check or at commit time, carries a message that names the offending *)
(* field: it names email or username, and each field it names is one whose *)
(* supplied value another live row holds at that step; and every not-found *)
(* outcome of a read, update or delete carries a message that names the    *)
(* id.                                                                     *)
C20_MessagesNameFieldOrId ==
    [][\A p \in Procs :
        /\ EndsInConflict(p) =>
            /\ NamedFields(resp'[p].detail) # {}
            /\ \A f \in NamedFields(resp'[p].detail) : OtherHolders(p, f) # {}
        /\ NotFoundNamesId(p)]_vars

\* the same for the conflicts of the pre-checks and for not-found
PrecheckAndNotFoundMessages ==
    [][\A p \in Procs :
        /\ (EndsInConflict(p) /\ pc[p] \notin {"c_commit", "u_commit"}) =>
            /\ NamedFields(resp'[p].detail) # {}
            /\ \A f \in NamedFields(resp'[p].detail) : OtherHolders(p, f) # {}
        /\ NotFoundNamesId(p)]_vars

-----------------------------------------------------------------------------
(* Rejected commits *)

(* C21: when the store rejects the commit of an update (the request ends   *)
(* in 400 at its commit), the attempted change is rolled back: the step    *)
(* leaves every row as it was, so no field of the losing payload is        *)
(* applied, and the session's changed object is discarded; and since no    *)
(* earlier step of the update writes, the record is as it was before the   *)
(* update began, apart from what other requests committed.                 *)
C21_RejectedUpdateRolledBack ==
    [][\A p \in Procs :
        /\ (pc[p] = "u_commit" /\ Ends(p) /\ resp'[p].status = 400)
            => /\ users' = users /\ nextId' = nextId
               /\ sess'[p] = None
               /\ \A f \in Changed(sess[p][1], req[p].user) :
                    req[p].user_id \in DOMAIN users'
                        => users'[req[p].user_id][f] # req[p].user[f]
                           \/ users[req[p].user_id][f] = req[p].user[f]
        /\ (req[p].op = "update" /\ Steps(p)
            /\ pc[p] \in {"u_email", "u_username", "u_load"})
            => users' = users]_vars

\* an update of email and full_name lost its email to another writer at commit,
\* and the row has neither the email nor the full_name of its payload
C21_Witness ==
    \E p \in Procs :
        /\ Conflicted(p) /\ req[p].op = "update"
        /\ resp[p].detail = "Email or username already exists"
        /\ req[p].user.sent = {"email", "full_name"}
        /\ req[p].user_id \in DOMAIN users
        /\ users[req[p].user_id].email # req[p].user.email
        /\ users[req[p].user_id].full_name # req[p].user.full_name

-----------------------------------------------------------------------------
(* Structural validation *)

\* the username and full_name a body supplies are within the bounds
InBounds(b) ==
    /\ b.username # None => Len(b.username[1]) >= 3 /\ Len(b.username[1]) <= 50
    /\ b.full_name # None => Len(b.full_name[1]) <= 100

(* C22: field length bounds are enforced on create and on update before    *)
(* any store access: in the step that receives a create or an update, a    *)
(* body is accepted (the request goes on to its first statement of the     *)
(* store) exactly when its username, if supplied, has a length in [3, 50]  *)
(* and its full_name is absent, null or of length <= 100; any other body   *)
(* ends the request in structural-validation-failure (422) in that step,   *)
(* and the table is unchanged.                                             *)
C22_LengthBoundsEnforced ==
    [][\A p \in Procs :
        (pc[p] = "new" /\ Steps(p) /\ req'[p].op \in {"create", "update"})
        => /\ users' = users /\ nextId' = nextId
           /\ IF InBounds(req'[p].user)
              THEN pc'[p] \in {"c_email", "u_username", "u_load"}
              ELSE /\ pc'[p] = "done" /\ resp'[p].status = 422
                   /\ resp'[p].body = None]_vars

\* a create with a username of 50 and a full_name of 100 characters was stored,
\* and a request with a username of 51 characters was refused
C22_Witness ==
    \E p, q \in Procs :
        /\ pc[p] = "done" /\ req[p].op = "create" /\ resp[p].status = 201
        /\ Len(resp[p].body[1].username[1]) = 50
        /\ resp[p].body[1].full_name # None
        /\ Len(resp[p].body[1].full_name[1]) = 100
        /\ pc[q] = "done" /\ resp[q].status = 422
        /\ req[q].user.username # None /\ Len(req[q].user.username[1]) = 51

-----------------------------------------------------------------------------
(* The record an update returns *)

(* C23: a successful update returns the updated record: when an update     *)
(* ends in success (200), every field its payload supplied has the         *)
(* supplied value in the record it returns.                                *)
C23_UpdateReturnsSuppliedValues ==
    [][\A p \in Procs :
        (req[p].op = "update" /\ Ends(p) /\ resp'[p].status = 200)
        => \A f \in req[p].user.sent : resp'[p].body[1][f] = req[p].user[f]]_vars

\* the same for an update during whose steps no other request takes a step
UpdateAloneReturnsSuppliedValues ==
    [][\A p \in Procs :
        (/\ req[p].op = "update" /\ Ends(p) /\ resp'[p].status = 200
         /\ \A q \in Procs \ {p} : pc[q] = "new")
        => \A f \in req[p].user.sent : resp'[p].body[1][f] = req[p].user[f]]_vars

-----------------------------------------------------------------------------
(* Races of creates with updates *)

\* the email or username all the racing requests supply
RacedField == IF \A p \in Procs : req[p].user.email = req[1].user.email
              THEN "email" ELSE "username"

(* C24: a mix of N >= 2 concurrent creates and updates (the updates of     *)
(* different rows) that all supply one initially free email, or all one    *)
(* initially free username: once all have finished, exactly one has ended  *)
(* in success (201 or 200), all the others have ended in conflict (400),   *)
(* and exactly one row holds the value.                                    *)
C24_MixedRaceOneWinner ==
    AllDone =>
        /\ Cardinality({p \in Procs : resp[p].status \in {200, 201}}) = 1
        /\ \A p \in Procs : resp[p].status \in {200, 201, 400}
        /\ Cardinality({i \in DOMAIN users :
                users[i][RacedField] = req[1].user[RacedField]}) = 1

\* the race is over: an update won, a create passed its pre-checks and lost at
\* its commit
C24_Witness ==
    /\ AllDone
    /\ \E p \in Procs : req[p].op = "update" /\ resp[p].status = 200
    /\ \E p \in Procs :
        /\ req[p].op = "create" /\ resp[p].status = 400
        /\ resp[p].detail = "User with this email or username already exists"

-----------------------------------------------------------------------------
(* Round trips *)

\* the place of each statement in its handler
Rank ==
    [new |-> 0, c_email |-> 1, c_username |-> 2, c_commit |-> 3, c_refresh |-> 4,
     u_email |-> 1, u_username |-> 2, u_load |-> 3, u_commit |-> 4, u_refresh |-> 5,
     r_load |-> 1, l_query |-> 1, d_load |-> 1, d_commit |-> 2, done |-> 6]

(* C25: every create and every update ends after a bounded number of round *)
(* trips to the store: each step of the request moves it forward in its    *)
(* handler, so it runs each uniqueness lookup at most once (at most two in *)
(* all) and attempts its commit at most once; a commit the store rejects   *)
(* is not retried: the step that attempts it ends the request in conflict  *)
(* (the record an update addresses being still stored) and writes nothing. *)
C25_BoundedRoundTripsNoRetry ==
    [][\A p \in Procs :
        (Steps(p) /\ req'[p].op \in {"create", "update"})
        => /\ Rank[pc'[p]] > Rank[pc[p]]
           /\ pc[p] \in {"c_commit", "u_commit"} =>
                /\ pc'[p] \in {"c_refresh", "u_refresh", "done"}
                /\ pc'[p] = "done" => users' = users
                /\ (pc'[p] = "done"
                    /\ (req[p].op = "update" => req[p].user_id \in DOMAIN users))
                   => resp'[p].status = 400]_vars

\* two creates of one email: the one that committed second went to the store
\* three times and ended in conflict, the other was stored
C25_Witness ==
    \E p, q \in Procs :
        /\ p # q /\ req[p].op = "create" /\ req[q].op = "create"
        /\ req[p].user.email = req[q].user.email
        /\ pc[p] = "done" /\ resp[p].status = 400
        /\ resp[p].detail = "User with this email or username already exists"
        /\ pc[q] = "done" /\ resp[q].status = 201

-----------------------------------------------------------------------------
(* C26: create checks the email before the username: a create whose email  *)
(* and username are both held by live rows when it starts its lookups ends *)
(* at that lookup in the conflict that names the email; and a create ends  *)
(* in the conflict that names the username only at its second lookup,      *)
(* which it comes to only after a lookup that found its email free.        *)
C26_EmailCheckedBeforeUsername ==
    [][\A p \in Procs :
        (Steps(p) /\ req'[p].op = "create")
        => /\ (/\ pc[p] = "c_email"
               /\ HoldersOfEmail(users, req[p].user.email) # {}
               /\ HoldersOfUsername(users, req[p].user.username) # {})
              => /\ pc'[p] = "done" /\ resp'[p].status = 400
                 /\ resp'[p].detail = EmailRegistered(req[p].user.email)
           /\ (pc'[p] = "done" /\ resp'[p].status = 400
               /\ resp'[p].detail = UsernameTaken(req'[p].user.username))
              => pc[p] = "c_username"
           /\ pc'[p] = "c_username"
              => /\ pc[p] = "c_email"
                 /\ HoldersOfEmail(users, req[p].user.email) = {}]_vars

\* a create of a stored email together with the username of another stored
\* row has ended in the conflict naming the email
C26_Witness ==
    \E p \in Procs :
        /\ pc[p] = "done" /\ req[p].op = "create" /\ resp[p].status = 400
        /\ resp[p].detail = EmailRegistered(req[p].user.email)
        /\ \E i, j \in DOMAIN users :
              /\ i # j
              /\ users[i].email = req[p].user.email
              /\ users[j].username = req[p].user.username

-----------------------------------------------------------------------------
(* Omitted and null fields of an update *)

\* the body {"full_name": null}
ClearsFullName(b) == b.sent = {"full_name"} /\ b.full_name = None

C27_WitnessOmitted ==
    \E p, q \in Procs :
        /\ p # q
        /\ pc[p] = "done" /\ req[p].op = "update" /\ resp[p].status = 200
        /\ "full_name" \notin req[p].user.sent
        /\ resp[p].body[1].updated_at # None
        /\ resp[p].body[1].full_name # None
        /\ pc[q] = "done" /\ req[q].op \in {"create", "update"}
        /\ resp[q].status \in {200, 201}
        /\ resp[q].body[1].id = req[p].user_id
        /\ resp[q].body[1].full_name = resp[p].body[1].full_name

-----------------------------------------------------------------------------
(* Races of deletes *)

\* every request is a delete of one id, which had a row at the start
DeletesOfOneLiveId ==
    /\ \A p \in Procs : req[p].op = "delete" /\ req[p].user_id = req[1].user_id
    /\ req[1].user_id \in 1..(nextId - 1)

(* C28: among concurrent deletes of one live id, once all have finished,   *)
(* exactly one has ended in success (204) and all the others in not-found  *)
(* (404).                                                                  *)
C28_OneDeleteSucceeds ==
    (AllDone /\ DeletesOfOneLiveId)
    => /\ Cardinality({p \in Procs : resp[p].status = 204}) = 1
       /\ \A p \in Procs : resp[p].status \in {204, 404}

\* what does hold of these deletes: at least one ends in success, each ends in
\* success or not-found, and the row is gone
DeleteRaceRemovesRow ==
    (AllDone /\ DeletesOfOneLiveId)
    => /\ \E p \in Procs : resp[p].status = 204
       /\ \A p \in Procs : resp[p].status \in {204, 404}
       /\ req[1].user_id \notin DOMAIN users

-----------------------------------------------------------------------------
(* Values released by a delete *)

\* row user_id was there at the start, no update of it has been received, and a
\* delete of it has ended in success: its email and username were SeedUser's
DeletedSeed(user_id) ==
    /\ Deleted(user_id)
    /\ \A q \in Procs :
        /\ (pc[q] # "new" /\ req[q].op = "update") => req[q].user_id # user_id
        /\ (pc[q] = "done" /\ req[q].op = "create" /\ resp[q].status = 201)
           => resp[q].body[1].id # user_id

\* the body of p supplies the email or the username of the seed row user_id
SuppliesValueOf(p, user_id) ==
    \E f \in {"email", "username"} \cap req[p].user.sent :
        req[p].user[f] = SeedUser(user_id)[f]

(* C29: a delete releases the record's unique values: when a create, or an *)
(* update of another record, that supplies the email or the username of a  *)
(* record whose delete has succeeded ends in conflict (400), at a          *)
(* pre-check or at the commit, it is because of a record that has not been *)
(* deleted: some live row, not the deleted one, holds the email or the     *)
(* username it supplies.                                                   *)
C29_DeleteReleasesUniqueValues ==
    [][\A p \in Procs : \A user_id \in 1..InitUsers :
        (/\ EndsInConflict(p) /\ req[p].op \in {"create", "update"}
         /\ DeletedSeed(user_id) /\ SuppliesValueOf(p, user_id)
         /\ req[p].op = "update" => req[p].user_id # user_id)
        => \E f \in {"email", "username"} :
              \E i \in OtherHolders(p, f) : ~Deleted(i)]_vars

\* a record was deleted and a create that supplied its email has been stored
C29_Witness ==
    \E p, q \in Procs :
        /\ pc[q] = "done" /\ req[q].op = "delete" /\ resp[q].status = 204
        /\ req[q].user_id \in 1..InitUsers
        /\ pc[p] = "done" /\ req[p].op = "create" /\ resp[p].status = 201
        /\ req[p].user.email = SeedUser(req[q].user_id).email
        /\ \E i \in DOMAIN users : users[i].email = req[p].user.email

-----------------------------------------------------------------------------
(* Races of an update with a delete *)

(* C30: a deleted record is never resurrected: when an update and a delete *)
(* of one id have both finished and the delete ended in success (204), no  *)
(* row has that id, in whichever order their lookups and commits ran.      *)
C30_DeletedNotResurrected ==
    \A p, q \in Procs :
        (/\ pc[p] = "done" /\ req[p].op = "update"
         /\ pc[q] = "done" /\ req[q].op = "delete" /\ resp[q].status = 204
         /\ req[p].user_id = req[q].user_id)
        => req[q].user_id \notin DOMAIN users

\* the two did race: the update loaded the row, the delete removed it, and the
\* update's UPDATE or refresh then found no row
C30_Witness ==
    \E p, q \in Procs :
        /\ pc[p] = "done" /\ req[p].op = "update" /\ resp[p].status = 500
        /\ pc[q] = "done" /\ req[q].op = "delete" /\ resp[q].status = 204
        /\ req[p].user_id = req[q].user_id
        /\ req[q].user_id \notin DOMAIN users

-----------------------------------------------------------------------------
(* Concurrent updates of disjoint fields *)

\* no request other than p and q that updates or deletes row user_id has been
\* received
OnlyWriters(p, q, user_id) ==
    \A r \in Procs \ {p, q} :
        (pc[r] # "new" /\ req[r].op \in {"update", "delete"})
        => req[r].user_id # user_id

(* C31: no lost update between writers of disjoint fields: when two        *)
(* updates of one record whose payloads supply disjoint sets of fields     *)
(* have both ended in success (200), no other request having written the   *)
(* record, the record holds every value either payload supplied, in        *)
(* whichever order their loads and commits ran.                            *)
C31_DisjointUpdatesBothKept ==
    \A p, q \in Procs :
        (/\ p # q
         /\ pc[p] = "done" /\ req[p].op = "update" /\ resp[p].status = 200
         /\ pc[q] = "done" /\ req[q].op = "update" /\ resp[q].status = 200
         /\ req[p].user_id = req[q].user_id
         /\ req[p].user.sent \cap req[q].user.sent = {}
         /\ OnlyWriters(p, q, req[p].user_id))
        => /\ req[p].user_id \in DOMAIN users
           /\ \A r \in {p, q} : \A f \in req[r].user.sent :
                users[req[p].user_id][f] = req[r].user[f]

\* the two did overlap: p committed a change after q was received and was
\* answered before q committed (its answer lacks q's value), and the row holds
\* the values of both
C31_Witness ==
    \E p, q \in Procs :
        /\ p # q
        /\ pc[p] = "done" /\ req[p].op = "update" /\ resp[p].status = 200
        /\ pc[q] = "done" /\ req[q].op = "update" /\ resp[q].status = 200
        /\ req[p].user_id = req[q].user_id
        /\ req[p].user.sent \cap req[q].user.sent = {}
        /\ resp[p].body[1].updated_at = Some(2)
        /\ \E f \in req[q].user.sent : resp[p].body[1][f] # req[q].user[f]
        /\ \A r \in {p, q} : \A f \in req[r].user.sent :
              users[req[p].user_id][f] = req[r].user[f]

-----------------------------------------------------------------------------
(* What delete, read and list change *)

\* request p is a delete that ends in success in this step
EndsDeleted(p) ==
    req[p].op = "delete" /\ Ends(p) /\ resp'[p].status = 204

(* C32: a delete that ends in success (204) removes exactly the addressed  *)
(* record: the record was stored, is gone after the step, and every other  *)
(* record is as it was; every other step of a delete (one that ends in     *)
(* not-found or invalid-argument included) and every step of a read or a   *)
(* list leaves the whole store as it was.                                  *)
C32_DeleteReadListFrame ==
    [][\A p \in Procs :
        (Steps(p) /\ req'[p].op \in {"delete", "read", "list"})
        => IF EndsDeleted(p)
           THEN /\ req[p].user_id \in DOMAIN users
                /\ users' = [i \in DOMAIN users \ {req[p].user_id} |-> users[i]]
           ELSE users' = users]_vars

\* the same without the record having been stored when the delete commits:
\* after a delete that ends in success the addressed record is not stored and
\* every other record is as it was
DeleteLeavesOthersUnchanged ==
    [][\A p \in Procs :
        (Steps(p) /\ req'[p].op \in {"delete", "read", "list"})
        => IF EndsDeleted(p)
           THEN users' = [i \in DOMAIN users \ {req[p].user_id} |-> users[i]]
           ELSE users' = users]_vars

====
